---------------------------- MODULE Spec2Model ----------------------------
(***************************************************************************)
(* The debugger commands of commands/FBDebugCommands.py: wivar, binside,   *)
(* bmessage and findinstances.                                             *)
(*                                                                         *)
(* Text is a sequence of one-character strings.  A value that came back    *)
(* over the expression channel is a record [ok, value]: ok = FALSE is      *)
(* Python's None (the expression did not evaluate), value is the handle.   *)
(***************************************************************************)
EXTENDS Integers, Sequences, FiniteSets, TLC

VARIABLES
  \* ---- bmessage / binside (one command invocation, and its re-run)
  command,        \* which command this invocation runs
  expression,     \* arguments[0]
  rt,             \* the live object model: [depth, inst, meta]
  archOK,         \* functionPreambleExpressionForSelf() gives an expression
  pc,             \* position in run()
  match,          \* methodPattern.match(expression)
  targetIsClass, targetObject, targetClass,
  found, nextClass,
  tests,          \* calls of classItselfImplementsSelector in this run
  evals,          \* round trips over the expression channel in this run
  issued,         \* lldb.debugger.HandleCommand calls of this run
  outcome,        \* what the run printed / how it ended
  prev,           \* the previous run's result in this session
  \* ---- the parser alone
  want,           \* the parts the query text was written from
  got,            \* what methodPattern made of it
  \* ---- wivar
  wObject, wOffset, wSize,   \* results of the three round trips
  watchCalls,                \* WatchAddress calls
  wOutcome,
  \* ---- findinstances
  chiselModule,   \* target.module['Chisel'] is present
  libOnDisk,      \* os.path.exists(chiselLibraryPath())
  fiArg,          \* arguments[0] of the last request
  fiCall,         \* the expression handed to evaluateExpressionValue
  fiOutcome,
  requests, dlopens, loads, unloads

bmVars == <<command, expression, rt, archOK, pc, match, targetIsClass,
            targetObject, targetClass, found, nextClass, tests, evals,
            issued, outcome, prev>>
parseVars == <<want, got>>
wivarVars == <<wObject, wOffset, wSize, watchCalls, wOutcome>>
findVars == <<chiselModule, libOnDisk, fiArg, fiCall, fiOutcome, requests,
              dlopens, loads, unloads>>
vars == <<bmVars, parseVars, wivarVars, findVars>>

----------------------------------------------------------------------------
(* Text helpers *)

Whitespace == {" "}

RECURSIVE Concat(_)
Concat(parts) ==
  IF parts = <<>> THEN <<>> ELSE Head(parts) \o Concat(Tail(parts))

\* All texts over alphabet of length lo..hi
TextsOver(alphabet, lo, hi) ==
  UNION { [1..n -> alphabet] : n \in lo..hi }

----------------------------------------------------------------------------
\* methodPattern, lines 89-97, in re.VERBOSE form: an optional scope, one of
\* "-" and "+"; "["; a lazy target of any characters; an optional category,
\* "(" then one or more characters (greedy) then ")"; one or more
\* whitespace characters; a greedy selector of any characters; "]".
\* A way to match is <<k, a, b, c, d>>: the scope is s[1..k], "[" is
\* s[k+1], the target s[k+2..a], the category s[a+1..b] (b = a: none),
\* the whitespace s[b+1..c], the selector s[c+1..d-1] and "]" is s[d].
\* re.match anchors at the start only.

ScopeLens(s) ==
  {k \in {0, 1} : /\ k = 1 => (Len(s) >= 1 /\ s[1] \in {"-", "+"})
                  /\ Len(s) >= k + 1
                  /\ s[k + 1] = "["}

CategoryEnds(s, a) ==
  {b \in (a + 3)..Len(s) : s[a + 1] = "(" /\ s[b] = ")"}

WhitespaceEnds(s, b) ==
  {c \in (b + 1)..Len(s) : \A i \in (b + 1)..c : s[i] \in Whitespace}

BracketEnds(s, c) ==
  {d \in (c + 1)..Len(s) : s[d] = "]"}

Matchings(s) ==
  UNION { UNION { UNION { UNION {
      { <<k, a, b, c, d>> : d \in BracketEnds(s, c) }
        : c \in WhitespaceEnds(s, b) }
        : b \in {a} \cup CategoryEnds(s, a) }
        : a \in (k + 1)..Len(s) }
        : k \in ScopeLens(s) }

\* The order in which the backtracking matcher tries them: the optional
\* scope and category are tried present first, the lazy target shortest
\* first, the greedy parts longest first.
TriedBefore(x, y) ==
  \/ x[1] > y[1]
  \/ x[1] = y[1] /\ x[2] < y[2]
  \/ x[1] = y[1] /\ x[2] = y[2] /\ x[3] > y[3]
  \/ x[1] = y[1] /\ x[2] = y[2] /\ x[3] = y[3] /\ x[4] > y[4]
  \/ x[1] = y[1] /\ x[2] = y[2] /\ x[3] = y[3] /\ x[4] = y[4] /\ x[5] > y[5]

NoMatch ==
  [matched |-> FALSE, scope |-> <<>>, target |-> <<>>, category |-> <<>>,
   selector |-> <<>>]

\* match.group(...) of the four named groups; an unmatched optional group
\* (None) is the empty text.
methodPatternMatch(s) ==
  LET ms == Matchings(s) IN
  IF ms = {} THEN NoMatch
  ELSE LET m == CHOOSE x \in ms : \A y \in ms \ {x} : TriedBefore(x, y) IN
       [matched  |-> TRUE,
        scope    |-> SubSeq(s, 1, m[1]),
        target   |-> SubSeq(s, m[1] + 2, m[2]),
        category |-> SubSeq(s, m[2] + 1, m[3]),
        selector |-> SubSeq(s, m[4] + 1, m[5] - 1)]

----------------------------------------------------------------------------
(* The live object model behind the expression channel.                    *)
(* Handles: 0 is nil; class c is c (class 1 is the root, the superclass of *)
(* c is c - 1); the metaclass of class c is 10 + c (its superclass is the  *)
(* metaclass of c - 1, and the root metaclass's superclass is the root     *)
(* class); the instance the query text can name of class c is 20 + c.      *)

MaxDepth == 3

Failure == [ok |-> FALSE, value |-> 0]
Value(v) == [ok |-> TRUE, value |-> v]

Classes == 1..MaxDepth
IsClass(h) == h \in Classes
IsMeta(h) == h \in {10 + c : c \in Classes}
IsInstance(h) == h \in {20 + c : c \in Classes}

ClassLetters == <<"A", "B", "C", "D", "E", "F">>
InstanceLetters == <<"a", "b", "c", "d", "e", "f">>
ClassText(c) == <<ClassLetters[c]>>
InstanceText(c) == <<InstanceLetters[c]>>
NilText == <<"n">>
UnknownText == <<"Z">>
KnownSelector == <<"s", ":">>

\* objc.class_getSuperclass
class_getSuperclass(klass) ==
  IF IsClass(klass) THEN klass - 1
  ELSE IF IsMeta(klass) THEN (IF klass = 11 THEN 1 ELSE klass - 1)
  ELSE 0

\* The class's own method table holds the selector.
HasOwnMethod(klass, selector) ==
  /\ selector = KnownSelector
  /\ \/ IsClass(klass) /\ klass \in rt.inst
     \/ IsMeta(klass) /\ (klass - 10) \in rt.meta

\* objc.class_getInstanceMethod: the runtime's lookup searches the class and
\* then its superclasses; 0 when none has the method, else a Method handle
\* that names the class whose table holds it.
RECURSIVE class_getInstanceMethod(_, _)
class_getInstanceMethod(klass, selector) ==
  IF klass = 0 THEN 0
  ELSE IF HasOwnMethod(klass, selector) THEN 100 + klass
  ELSE class_getInstanceMethod(class_getSuperclass(klass), selector)

\* objc.object_getClass
object_getClass(h) ==
  IF IsInstance(h) THEN h - 20
  ELSE IF IsClass(h) THEN 10 + h
  ELSE IF IsMeta(h) THEN 11
  ELSE 0

\* objc.class_getName: a metaclass has its class's name
class_getName(klass) ==
  IF IsClass(klass) THEN ClassText(klass)
  ELSE IF IsMeta(klass) THEN ClassText(klass - 10)
  ELSE <<"n", "i", "l">>

\* fb.evaluateObjectExpression('({})'.format(text), False): a variable that
\* holds an object gives its handle, a bare class name is no expression.
evaluateParenthesized(text) ==
  IF \E c \in Classes : text = InstanceText(c)
    THEN Value(20 + (CHOOSE c \in Classes : text = InstanceText(c)))
  ELSE IF text = NilText THEN Value(0)
  ELSE Failure

\* fb.evaluateObjectExpression('[{} class]'.format(text), False), text being
\* the query's target
evaluateClassOfText(text) ==
  IF \E c \in Classes : text = ClassText(c)
    THEN Value(CHOOSE c \in Classes : text = ClassText(c))
  ELSE IF evaluateParenthesized(text).ok
    THEN Value(object_getClass(evaluateParenthesized(text).value))
  ELSE Failure

\* fb.evaluateObjectExpression('[{} class]'.format(handle), False): None
\* formats as "None", which does not evaluate; +class of a class is itself.
evaluateClassOfHandle(r) ==
  IF ~r.ok THEN Failure
  ELSE IF IsInstance(r.value) THEN Value(r.value - 20)
  ELSE Value(r.value)

----------------------------------------------------------------------------
(* bmessage, FBMethodBreakpointCommand.run *)

\* a run that goes on after the failed match
ParseFailed_never(m) == FALSE

\* line 101: if not match
ParseFailed(m) == ~m.matched

\* lines 115-119
methodIsClassMethod(m) == m.scope = <<"+">>
methodTypeCharacter(m) == IF methodIsClassMethod(m) THEN <<"+">> ELSE <<"-">>

\* an ownership test that asks only whether the class responds
classItselfImplementsSelector_responds(klass, selector) ==
  class_getInstanceMethod(klass, selector) # 0

\* lines 169-179.  A class that lacks the method has a superclass that
\* lacks it too, so the test of line 171 and the comparison of line 176
\* agree on such a class.
classItselfImplementsSelector(klass, selector) ==
  LET thisMethod == class_getInstanceMethod(klass, selector)
      superklass == class_getSuperclass(klass)
      superMethod == class_getInstanceMethod(superklass, selector)
  IN  IF thisMethod = 0 THEN FALSE
      ELSE IF thisMethod = superMethod THEN FALSE
      ELSE TRUE

\* round trips of one classItselfImplementsSelector call
TestRoundTrips(klass, selector) ==
  IF class_getInstanceMethod(klass, selector) = 0 THEN 1 ELSE 3

\* line 142: while not found and int(nextClass, 0) > 0
AscentContinues(isFound, klass) == ~isFound /\ klass > 0

\* a loop that does not move up
AscentNext_stays(klass) == klass

\* line 146
AscentNext(klass) == class_getSuperclass(klass)

\* a test of the handle in place of the flag
NoImplementation_handle(isFound, klass) == ~isFound /\ klass # 0

\* line 148: if not found
NoImplementation(isFound, klass) == ~isFound

\* lines 152-154
breakpointFullName(m, klass) ==
  Concat(<<methodTypeCharacter(m), <<"[">>, class_getName(klass), m.category,
           <<" ">>, m.selector, <<"]">>>>)

\* line 166; the pieces of the format string are kept whole
breakpointPattern(m, klass) ==
  Concat(<<methodTypeCharacter(m), <<"\\[">>, class_getName(klass),
           <<"(\\(.+\\))? ">>, m.selector, <<"\\]">>>>)

\* a guard that always compares self
breakpointCondition_self(isClass, klass, object) ==
  [lhs |-> "self", rhs |-> object.value]

\* lines 156-159: the left side tells object_getClass(self) from self
breakpointCondition(isClass, klass, object) ==
  IF isClass
    THEN [lhs |-> "object_getClass(self)", rhs |-> klass]
    ELSE [lhs |-> "self", rhs |-> object.value]

\* the two directives the wrong way round
BreakpointCommand_swapped(m, klass, cond) ==
  IF m.category = <<>>
    THEN [kind |-> "fullname", name |-> breakpointFullName(m, klass),
          condition |-> cond]
    ELSE [kind |-> "func-regex", name |-> breakpointPattern(m, klass),
          condition |-> cond]

\* lines 163-167
BreakpointCommand(m, klass, cond) ==
  IF m.category # <<>>
    THEN [kind |-> "fullname", name |-> breakpointFullName(m, klass),
          condition |-> cond]
    ELSE [kind |-> "func-regex", name |-> breakpointPattern(m, klass),
          condition |-> cond]

NoResult == [outcome |-> "none", owner |-> 0, issued |-> <<>>]

ResetLocals ==
  /\ match = NoMatch
  /\ targetIsClass = FALSE
  /\ targetObject = Failure
  /\ targetClass = 0
  /\ found = FALSE
  /\ nextClass = 0
  /\ tests = 0
  /\ evals = 0
  /\ issued = <<>>
  /\ outcome = "none"

\* lines 87-119.  Without an expression for self the command ends at line
\* 107 (whose message names arch, which run() does not define, so the
\* print raises): either way nothing further happens.
BmessageParse ==
  /\ command = "bmessage"
  /\ pc = "start"
  /\ LET m == methodPatternMatch(expression) IN
       /\ match' = m
       /\ IF ParseFailed(m)
            THEN outcome' = "parse_failed" /\ pc' = "done"
            ELSE IF ~archOK
              THEN outcome' = "unsupported_arch" /\ pc' = "done"
              ELSE outcome' = outcome /\ pc' = "resolve"
  /\ UNCHANGED <<command, expression, rt, archOK, targetIsClass, targetObject,
                 targetClass, found, nextClass, tests, evals, issued, prev>>
  /\ UNCHANGED <<parseVars, wivarVars, findVars>>

\* lines 121-140
BmessageResolve ==
  /\ command = "bmessage"
  /\ pc = "resolve"
  /\ LET first == evaluateParenthesized(match.target)
         isClass == ~first.ok
         object == IF isClass THEN evaluateClassOfText(match.target) ELSE first
         klass == evaluateClassOfHandle(object)
         trips == IF isClass THEN 3 ELSE 2
     IN
       /\ targetIsClass' = isClass
       /\ targetObject' = object
       /\ IF ~klass.ok \/ klass.value = 0
            THEN /\ outcome' = "no_class"
                 /\ pc' = "done"
                 /\ evals' = evals + trips
                 /\ UNCHANGED <<targetClass, nextClass>>
            ELSE /\ targetClass' = IF methodIsClassMethod(match)
                                     THEN object_getClass(klass.value)
                                     ELSE klass.value
                 /\ nextClass' = targetClass'
                 /\ evals' = evals + trips
                              + (IF methodIsClassMethod(match) THEN 1 ELSE 0)
                 /\ pc' = "ascent"
                 /\ outcome' = outcome
  /\ found' = FALSE
  /\ UNCHANGED <<command, expression, rt, archOK, match, tests, issued, prev>>
  /\ UNCHANGED <<parseVars, wivarVars, findVars>>

\* lines 142-146, one pass of the loop
AscentStep ==
  /\ command = "bmessage"
  /\ pc = "ascent"
  /\ AscentContinues(found, nextClass)
  /\ IF classItselfImplementsSelector(nextClass, match.selector)
       THEN /\ found' = TRUE
            /\ nextClass' = nextClass
            /\ evals' = evals + TestRoundTrips(nextClass, match.selector)
       ELSE /\ found' = found
            /\ nextClass' = AscentNext(nextClass)
            /\ evals' = evals + TestRoundTrips(nextClass, match.selector) + 1
  /\ tests' = tests + 1
  /\ UNCHANGED <<command, expression, rt, archOK, pc, match, targetIsClass,
                 targetObject, targetClass, issued, outcome, prev>>
  /\ UNCHANGED <<parseVars, wivarVars, findVars>>

\* lines 148-167
BmessageEmit ==
  /\ command = "bmessage"
  /\ pc = "ascent"
  /\ ~AscentContinues(found, nextClass)
  /\ IF NoImplementation(found, nextClass)
       THEN /\ outcome' = "no_implementation"
            /\ UNCHANGED <<issued, evals>>
       ELSE /\ outcome' = "breakpoint_set"
            /\ evals' = evals + 1
            /\ issued' = Append(issued,
                 BreakpointCommand(match, nextClass,
                   breakpointCondition(targetIsClass, targetClass,
                                       targetObject)))
  /\ pc' = "done"
  /\ UNCHANGED <<command, expression, rt, archOK, match, targetIsClass,
                 targetObject, targetClass, found, nextClass, tests, prev>>
  /\ UNCHANGED <<parseVars, wivarVars, findVars>>

----------------------------------------------------------------------------
(* binside, FBFrameworkAddressBreakpointCommand.run *)

HexDigits == <<"0", "1", "2", "3", "4", "5", "6", "7", "8", "9",
               "a", "b", "c", "d", "e", "f">>

DigitValue(ch) == (CHOOSE i \in 1..16 : HexDigits[i] = ch) - 1

IsDigit(ch, radix) == \E i \in 1..radix : HexDigits[i] = ch

RECURSIVE Numeral(_, _)
Numeral(digits, radix) ==
  IF digits = <<>> THEN 0
  ELSE Numeral(SubSeq(digits, 1, Len(digits) - 1), radix) * radix
         + DigitValue(digits[Len(digits)])

\* int(text, 0) of Python 2: the literal's prefix chooses the base ("0x"
\* sixteen, a leading "0" eight, else ten); anything else raises ValueError.
IntBase0(text) ==
  LET n == Len(text)
      rest(k) == SubSeq(text, k, n)
      all(k, radix) == \A i \in k..n : IsDigit(text[i], radix)
  IN  IF n >= 3 /\ text[1] = "0" /\ text[2] = "x" /\ all(3, 16)
        THEN Value(Numeral(rest(3), 16))
      ELSE IF n >= 1 /\ text[1] = "0" /\ all(1, 8)
        THEN Value(Numeral(text, 8))
      ELSE IF n >= 1 /\ text[1] # "0" /\ all(1, 10)
        THEN Value(Numeral(text, 10))
      ELSE Failure

\* line 70: the module slides a file address to where it is loaded
ResolveFileAddress(library_address) == library_address + rt.slide

\* line 72
AddressCommand(address) == [kind |-> "address", address |-> address]

\* lines 68-72
Binside ==
  /\ command = "binside"
  /\ pc = "start"
  /\ LET library_address == IntBase0(expression) IN
       IF ~library_address.ok
         THEN outcome' = "value_error" /\ issued' = issued
         ELSE /\ outcome' = "breakpoint_set"
              /\ issued' = Append(issued,
                   AddressCommand(ResolveFileAddress(library_address.value)))
  /\ pc' = "done"
  /\ UNCHANGED <<command, expression, rt, archOK, match, targetIsClass,
                 targetObject, targetClass, found, nextClass, tests, evals,
                 prev>>
  /\ UNCHANGED <<parseVars, wivarVars, findVars>>

----------------------------------------------------------------------------
(* A debugging session that gives the same command again on the stopped,   *)
(* unchanged process.                                                      *)

Rerun ==
  /\ pc = "done"
  /\ prev' = [outcome |-> outcome, owner |-> nextClass, issued |-> issued]
  /\ pc' = "start"
  /\ match' = NoMatch
  /\ targetIsClass' = FALSE
  /\ targetObject' = Failure
  /\ targetClass' = 0
  /\ found' = FALSE
  /\ nextClass' = 0
  /\ tests' = 0
  /\ evals' = 0
  /\ issued' = <<>>
  /\ outcome' = "none"
  /\ UNCHANGED <<command, expression, rt, archOK>>
  /\ UNCHANGED <<parseVars, wivarVars, findVars>>

Scopes == {<<>>, <<"-">>, <<"+">>}
Categories == {<<>>, <<"(", "K", ")">>}
Targets ==
  {ClassText(c) : c \in Classes} \cup {InstanceText(c) : c \in Classes}
    \cup {NilText, UnknownText}

Query(scope, target, category, space, selector) ==
  Concat(<<scope, <<"[">>, target, category, space, selector, <<"]">>>>)

BmessageQueries ==
  {Query(sc, t, cat, <<" ">>, KnownSelector) :
      sc \in Scopes, t \in Targets, cat \in Categories}
    \cup {<<>>, <<"A", " ", "s", ":">>, <<"[", "A", "]">>,
          <<"x", "[", "A", " ", "s", ":", "]">>}

BinsideArguments ==
  {<<"0", "x", "1", "0">>, <<"1", "6">>, <<"0", "1", "0">>, <<"z">>, <<>>}

IdleParse == want = NoMatch /\ got = NoMatch
IdleWivar ==
  /\ wObject = Failure /\ wOffset = Failure /\ wSize = Failure
  /\ watchCalls = <<>> /\ wOutcome = "none"
IdleFind ==
  /\ chiselModule = FALSE /\ libOnDisk = FALSE /\ fiArg = <<>>
  /\ fiCall = <<>> /\ fiOutcome = "none"
  /\ requests = 0 /\ dlopens = 0 /\ loads = 0 /\ unloads = 0
Init ==
  /\ \/ /\ command = "bmessage"
        /\ expression \in BmessageQueries
        /\ rt \in [inst : SUBSET Classes, meta : SUBSET Classes, slide : {0}]
        /\ archOK \in BOOLEAN
     \/ /\ command = "binside"
        /\ expression \in BinsideArguments
        /\ rt \in [inst : {{}}, meta : {{}}, slide : {0, 4096}]
        /\ archOK = TRUE
  /\ pc = "start"
  /\ prev = NoResult
  /\ ResetLocals
  /\ IdleParse /\ IdleWivar /\ IdleFind

Next ==
  \/ BmessageParse
  \/ BmessageResolve
  \/ AscentStep
  \/ BmessageEmit
  \/ Binside
  \/ Rerun

Spec == Init /\ [][Next]_vars

----------------------------------------------------------------------------
(* Properties of bmessage and binside *)

\* klass and the classes above it
RECURSIVE Chain(_)
Chain(klass) ==
  IF klass = 0 THEN {} ELSE {klass} \cup Chain(class_getSuperclass(klass))

ChainLength(klass) == Cardinality(Chain(klass))

\* the classes of the chain whose own method table holds the selector
Implementers(klass, selector) ==
  {k \in Chain(klass) : HasOwnMethod(k, selector)}

\* the run resolved the target to a class and entered the ascent
Resolved == command = "bmessage" /\ pc \in {"ascent", "done"} /\ targetClass # 0

\* what the query's target names, read off the query text
NamedClass == {c \in Classes : match.target = ClassText(c)}
NamedInstance == {c \in Classes : match.target = InstanceText(c)}

\* C1: when exactly one class A of the chain above the starting class
\* implements the selector, the ascent stops with nextClass = A (while it
\* has not stopped, A is still ahead), the run sets a breakpoint, and the
\* breakpoint's name is built from A's class name.
C1_AscentStopsAtOwner ==
  (Resolved /\ Cardinality(Implementers(targetClass, match.selector)) = 1) =>
    LET A == CHOOSE k \in Implementers(targetClass, match.selector) : TRUE IN
      /\ found => nextClass = A
      /\ ~found => A \in Chain(nextClass)
      /\ pc = "done" =>
           /\ found
           /\ outcome = "breakpoint_set"
           /\ Len(issued) = 1
           /\ issued[1].name \in {breakpointFullName(match, A),
                                  breakpointPattern(match, A)}

\* C1 witness: the owner is two classes above the starting class (A -> B -> C
\* with only A implementing), and the breakpoint has been set.
C1_Witness ==
  /\ Resolved /\ pc = "done" /\ outcome = "breakpoint_set"
  /\ Implementers(targetClass, match.selector) = {nextClass}
  /\ nextClass = class_getSuperclass(class_getSuperclass(targetClass))
  /\ tests = 3

\* C2: when no class of the chain above the starting class (the metaclass
\* for a "+" query) implements the selector, the run ends in the
\* no-implementation outcome and no directive is issued.
C2_NoImplementationNoDirective ==
  (Resolved /\ Implementers(targetClass, match.selector) = {}) =>
    /\ issued = <<>>
    /\ ~found
    /\ pc = "done" => outcome = "no_implementation"

\* C2 witness: a "+" query whose metaclass chain was walked to the end.
C2_Witness ==
  /\ Resolved /\ pc = "done" /\ outcome = "no_implementation"
  /\ methodIsClassMethod(match)
  /\ Implementers(targetClass, match.selector) = {}
  /\ tests = ChainLength(targetClass)
  /\ issued = <<>>

\* C7: every directive bmessage issues carries a guard: for a target
\* resolved as a class it compares the class of self to the starting class
\* (its metaclass for a "+" query, not the owning ancestor), for an
\* instance it compares self to the instance's handle; the directive of
\* binside has no condition.
C7_GuardCondition ==
  \A i \in 1..Len(issued) :
    LET d == issued[i] IN
      /\ command = "binside" => "condition" \notin DOMAIN d
      /\ command = "bmessage" =>
           /\ "condition" \in DOMAIN d
           /\ d.condition.rhs # 0
           /\ \A c \in NamedClass :
                d.condition = [lhs |-> "object_getClass(self)",
                               rhs |-> IF match.scope = <<"+">>
                                         THEN 10 + c ELSE c]
           /\ \A c \in NamedInstance :
                d.condition = [lhs |-> "self", rhs |-> 20 + c]
           /\ NamedClass \cup NamedInstance # {}

\* C7 witness: "+[C s:]" where only an ancestor's metaclass implements s:
\* the guard names C's metaclass while the breakpoint is on the ancestor.
C7_Witness ==
  /\ command = "bmessage" /\ Len(issued) = 1
  /\ match.scope = <<"+">> /\ match.target = ClassText(3)
  /\ nextClass = 11
  /\ issued[1].condition = [lhs |-> "object_getClass(self)", rhs |-> 13]

\* C7 witness for binside is part of the same state space: an address
\* directive was issued.
C7_BinsideIssued ==
  command = "binside" /\ Len(issued) = 1 /\ issued[1].kind = "address"

\* C8: a run that resolves an owner issues exactly one directive: with a
\* category the exact full name scope[Owner(Category) selector], without
\* one a name regex on owner and selector with an optional category; the
\* guard is the same in both.
C8_OneDirectiveByCategory ==
  (Resolved /\ pc = "done"
     /\ Implementers(targetClass, match.selector) # {}) =>
    /\ outcome = "breakpoint_set"
    /\ Len(issued) = 1
    /\ LET d == issued[1]
           scope == IF match.scope = <<"+">> THEN <<"+">> ELSE <<"-">>
           owner == class_getName(nextClass)
       IN
         /\ match.category # <<>> =>
              /\ d.kind = "fullname"
              /\ d.name = scope \o <<"[">> \o owner \o match.category
                            \o <<" ">> \o match.selector \o <<"]">>
         /\ match.category = <<>> =>
              /\ d.kind = "func-regex"
              /\ d.name = scope \o <<"\\[">> \o owner \o <<"(\\(.+\\))? ">>
                            \o match.selector \o <<"\\]">>
         /\ d.condition =
              IF targetIsClass
                THEN [lhs |-> "object_getClass(self)", rhs |-> targetClass]
                ELSE [lhs |-> "self", rhs |-> targetObject.value]

\* C8 witness: a query with a category set its full-name breakpoint.
C8_Witness ==
  /\ Resolved /\ pc = "done" /\ Len(issued) = 1
  /\ match.category = <<"(", "K", ")">>
  /\ issued[1].kind = "fullname"
  /\ nextClass # targetClass

\* C9: a query text the pattern does not match ends the run in the
\* failed-to-parse outcome with no round trip over the expression channel
\* and no directive.
C9_ParseFailureNoEffects ==
  (command = "bmessage" /\ ~methodPatternMatch(expression).matched) =>
    /\ evals = 0
    /\ issued = <<>>
    /\ pc \in {"start", "done"}
    /\ pc = "done" => outcome = "parse_failed"

\* C9 witness: a text without brackets was rejected.
C9_Witness ==
  /\ command = "bmessage" /\ pc = "done" /\ outcome = "parse_failed"
  /\ expression = <<"A", " ", "s", ":">>

\* the number of ownership tests so far, plus those the rest of the chain
\* can still need, never exceeds the starting class's chain length
AscentBounded ==
  Resolved =>
    tests + (IF found THEN 0 ELSE ChainLength(nextClass))
      <= ChainLength(targetClass)

\* the loop ended for one of its two reasons
AscentEndedProperly ==
  (Resolved /\ pc = "done") => (found \/ nextClass = 0)

\* a second run on the unchanged hierarchy gives the first run's result
SameResultAgain ==
  (pc = "done" /\ prev # NoResult) =>
    prev = [outcome |-> outcome, owner |-> nextClass, issued |-> issued]

\* while the loop runs, its next pass or the code after it can be taken
AscentProgresses ==
  (command = "bmessage" /\ pc = "ascent") => ENABLED (AscentStep \/ BmessageEmit)

\* C10: the ascent terminates: every pass of the loop is an ownership test
\* that uses up one class of the chain, so it makes at most as many tests
\* as the chain is deep; it ends with an owner found or the handle at nil,
\* and gives the same result when run again.
C10_AscentTerminates ==
  AscentBounded /\ AscentProgresses /\ AscentEndedProperly /\ SameResultAgain

\* C10 witness: a second run that walked a metaclass chain to its end.
C10_Witness ==
  /\ Resolved /\ pc = "done" /\ prev # NoResult
  /\ tests = ChainLength(targetClass) /\ tests = MaxDepth + 1

----------------------------------------------------------------------------
(* The method-reference parser on its own: query texts written from known  *)
(* parts, handed to methodPattern.                                         *)

ParseTargets ==
  {<<"A">>,                          \* a class name
   <<"0", "x", "1">>,                \* a hexadecimal address
   <<"s", ".", "v">>,                \* a property path
   <<"(", "i", ")", "x">>,           \* a cast
   <<"(", "a", ")">>,                \* a parenthesised expression
   <<"[", "F", "]">>,                \* brackets without whitespace
   <<"[", "F", " ", "b", "]">>}      \* a nested message send
ParseCategories == {<<>>, <<"(", "K", ")">>}
ParseSpaces == {<<" ">>, <<" ", " ">>}
ParseSelectors == {<<"z">>, <<"s", ":">>, <<"s", ":", "t", ":">>}

WellFormed ==
  [scope : Scopes, target : ParseTargets, category : ParseCategories,
   space : ParseSpaces, selector : ParseSelectors]

QueryOf(w) == Query(w.scope, w.target, w.category, w.space, w.selector)

\* lines 99, 110-113 applied to the text
ParseQuery ==
  /\ command = "parse"
  /\ pc = "start"
  /\ got' = methodPatternMatch(expression)
  /\ pc' = "done"
  /\ UNCHANGED <<command, expression, rt, archOK, match, targetIsClass,
                 targetObject, targetClass, found, nextClass, tests, evals,
                 issued, outcome, prev>>
  /\ UNCHANGED <<want, wivarVars, findVars>>

InitParse ==
  /\ want \in WellFormed
  /\ got = NoMatch
  /\ command = "parse"
  /\ expression = QueryOf(want)
  /\ pc = "start"
  /\ archOK = TRUE
  /\ rt = [inst |-> {}, meta |-> {}, slide |-> 0]
  /\ prev = NoResult
  /\ ResetLocals
  /\ IdleWivar /\ IdleFind

SpecParse == InitParse /\ [][ParseQuery]_vars

Extracted(w) ==
  [matched |-> TRUE, scope |-> w.scope, target |-> w.target,
   category |-> w.category, selector |-> w.selector]

\* C4: every well-formed method reference is taken apart exactly, also
\* when the target is a hexadecimal address, contains parentheses, or is a
\* nested bracket expression with whitespace in it.
C4_ParsesExactly ==
  (command = "parse" /\ pc = "done") => got = Extracted(want)

HasAny(text, chars) == \E i \in 1..Len(text) : text[i] \in chars

\* What the pattern does take apart exactly: targets with no whitespace
\* and no parenthesis in them.
C4_PlainTargetsExact ==
  (command = "parse" /\ pc = "done"
     /\ ~HasAny(want.target, Whitespace \cup {"(", ")"}))
    => got = Extracted(want)

\* A target with whitespace in it is cut at its first whitespace, and the
\* rest of it lands in the selector.
C4_NestedSendSplit ==
  (command = "parse" /\ pc = "done" /\ want.category = <<>>
     /\ want.target = <<"[", "F", " ", "b", "]">>)
    => /\ got.target = <<"[", "F">>
       /\ got.selector = <<"b", "]">> \o want.space \o want.selector

----------------------------------------------------------------------------
(* wivar, FBWatchInstanceVariableCommand.run *)

\* what the three round trips of lines 36, 39 and 46 can bring back: None
\* when the expression does not evaluate, else the number int(.., 0) reads
ObjectResults == {Failure, Value(4096), Value(8192), Value(28672)}
OffsetResults == {Failure, Value(0), Value(8), Value(16)}
SizeResults == {Failure, Value(0), Value(4), Value(16)}

\* line 49: target.WatchAddress(objectAddress + ivarOffset, ivarSize,
\*                              False, True, error)
WatchAddressCall(objectAddress, ivarOffset, ivarSize) ==
  [address |-> objectAddress + ivarOffset, size |-> ivarSize,
   read |-> FALSE, write |-> TRUE]

\* lines 36-46: int(None, 0) raises, which ends the command
WivarRaises == ~wObject.ok \/ ~wOffset.ok \/ ~wSize.ok

\* lines 33-54; whether the debugger accepts the watchpoint is its own
\* affair
WivarRun ==
  /\ command = "wivar"
  /\ pc = "start"
  /\ IF WivarRaises
       THEN /\ wOutcome' = "exception"
            /\ watchCalls' = watchCalls
       ELSE /\ watchCalls' = Append(watchCalls,
                 WatchAddressCall(wObject.value, wOffset.value, wSize.value))
            /\ \E success \in BOOLEAN :
                 wOutcome' = IF success THEN "watchpoint_set"
                                        ELSE "could_not_create"
  /\ pc' = "done"
  /\ UNCHANGED <<command, expression, rt, archOK, match, targetIsClass,
                 targetObject, targetClass, found, nextClass, tests, evals,
                 issued, outcome, prev>>
  /\ UNCHANGED <<wObject, wOffset, wSize, parseVars, findVars>>

InitWivar ==
  /\ wObject \in ObjectResults
  /\ wOffset \in OffsetResults
  /\ wSize \in SizeResults
  /\ watchCalls = <<>>
  /\ wOutcome = "none"
  /\ command = "wivar"
  /\ expression = <<>>
  /\ pc = "start"
  /\ archOK = TRUE
  /\ rt = [inst |-> {}, meta |-> {}, slide |-> 0]
  /\ prev = NoResult
  /\ ResetLocals
  /\ IdleParse /\ IdleFind

SpecWivar == InitWivar /\ [][WivarRun]_vars

\* C3: when the offset or the size round trip gives zero (no such instance
\* variable), the command fails before WatchAddress: no call with
\* size 0, none with the object's own address as the base.
C3_NoZeroWatch ==
  /\ (wOffset = Value(0) \/ wSize = Value(0)) => watchCalls = <<>>
  /\ \A i \in 1..Len(watchCalls) : watchCalls[i].size > 0

\* The spec's scenario: 0x7000 + 16, 16 bytes.
C3_FrameScenario ==
  (wObject = Value(28672) /\ wOffset = Value(16) /\ wSize = Value(16)
     /\ pc = "done")
    => watchCalls = <<[address |-> 28688, size |-> 16, read |-> FALSE,
                       write |-> TRUE]>>

----------------------------------------------------------------------------
(* findinstances, FBFindInstancesCommand *)

MaxRequests == 3
MaxUnloads == 2
MaxPredicateLen == 2

Quote == "\""
Backslash == "\\"

\* str.strip() with no argument
RECURSIVE StripLeft(_)
StripLeft(text) ==
  IF text # <<>> /\ Head(text) \in Whitespace
    THEN StripLeft(Tail(text)) ELSE text

RECURSIVE StripRight(_)
StripRight(text) ==
  IF text # <<>> /\ text[Len(text)] \in Whitespace
    THEN StripRight(SubSeq(text, 1, Len(text) - 1)) ELSE text

Strip(text) == StripRight(StripLeft(text))

\* text.split(' ', 1): cut at the first space, if there is one
SplitOnce(text) ==
  IF \E i \in 1..Len(text) : text[i] = " "
    THEN LET i == CHOOSE j \in 1..Len(text) :
                    text[j] = " " /\ \A k \in 1..(j - 1) : text[k] # " "
         IN  <<SubSeq(text, 1, i - 1), SubSeq(text, i + 1, Len(text))>>
    ELSE <<text>>

\* line 245: re.sub('([\\"])', r'\\\1', predicate).  The pattern's text is
\* ( [ \ " ] ): inside the class the backslash escapes the quote, so the
\* class holds the double quote alone; each match gets a backslash before it.
RECURSIVE EscapePredicate(_)
EscapePredicate(predicate) ==
  IF predicate = <<>> THEN <<>>
  ELSE (IF Head(predicate) = Quote
          THEN <<Backslash, Quote>>
          ELSE <<Head(predicate)>>) \o EscapePredicate(Tail(predicate))

\* lines 239-247, before the escaping: the query and the predicate text
QueryPart(argument) == SplitOnce(Strip(argument))[1]
PredicatePart(argument) ==
  LET args == SplitOnce(Strip(argument)) IN
  IF Len(args) > 1 THEN Strip(args[2]) ELSE <<>>

\* line 248: the two string literals of the PrintInstances call
PrintInstancesCall(argument) ==
  [query |-> QueryPart(argument),
   predicate |-> EscapePredicate(PredicatePart(argument))]

\* line 234
NoQuery(arguments) == Len(arguments) = 0 \/ Strip(arguments[1]) = <<>>

\* lines 285-294: the override when it is set and exists, else the path
\* beside the installation
chiselLibraryPath(disk) ==
  IF disk.override = "exists" THEN "override" ELSE "default"

\* os.path.exists
PathExists(disk, path) ==
  IF path = "override" THEN disk.override = "exists" ELSE disk.default

\* what the dlopen round trip of line 261 can bring about: the handle it
\* returns and whether the target lists the module afterwards; a library
\* that was opened is listed
DlopenResults ==
  {r \in [handle : {0, 1}, listed : BOOLEAN] : r.handle # 0 => r.listed}

\* a load that does not ask the target first
loadChiselIfNecessary_unasked(listed, disk, dl) ==
  IF ~PathExists(disk, chiselLibraryPath(disk))
    THEN [loaded |-> FALSE, opened |-> FALSE, listed |-> listed,
          message |-> "library_missing"]
  ELSE IF dl.handle # 0 \/ dl.listed
    THEN [loaded |-> TRUE, opened |-> TRUE, listed |-> dl.listed,
          message |-> "none"]
  ELSE [loaded |-> FALSE, opened |-> TRUE, listed |-> listed,
        message |-> "load_error"]

\* lines 251-283: [loaded: the return value, opened: the dlopen round trip
\* was made, listed: the target lists the module afterwards].  Lines
\* 267-281 choose the text of the failure message and change nothing else.
loadChiselIfNecessary(listed, disk, dl) ==
  IF listed
    THEN [loaded |-> TRUE, opened |-> FALSE, listed |-> TRUE,
          message |-> "none"]
  ELSE IF ~PathExists(disk, chiselLibraryPath(disk))
    THEN [loaded |-> FALSE, opened |-> FALSE, listed |-> FALSE,
          message |-> "library_missing"]
  ELSE IF dl.handle # 0 \/ dl.listed
    THEN [loaded |-> TRUE, opened |-> TRUE, listed |-> dl.listed,
          message |-> "none"]
  ELSE [loaded |-> FALSE, opened |-> TRUE, listed |-> dl.listed,
        message |-> "load_error"]

FindArguments ==
  {<<>>, << <<>> >>, << <<" ">> >>, << <<"Q">> >>, << <<" ", "Q", " ">> >>}
    \cup { << <<"Q", " ">> \o p >> :
             p \in TextsOver({"a", Quote, Backslash}, 1, MaxPredicateLen) }
    \cup { << <<"Q", " ", " ", "a", " ", Quote, " ">> >> }

\* lines 230-249, one request
Findinstances ==
  /\ command = "findinstances"
  /\ requests < MaxRequests
  /\ \E arguments \in FindArguments, dl \in DlopenResults :
       LET load == loadChiselIfNecessary(chiselModule, libOnDisk, dl) IN
         /\ fiArg' = arguments
         /\ chiselModule' = load.listed
         /\ dlopens' = dlopens + (IF load.opened THEN 1 ELSE 0)
         /\ loads' = loads + (IF load.opened /\ load.listed THEN 1 ELSE 0)
         /\ IF ~load.loaded
              THEN fiOutcome' = load.message /\ fiCall' = <<>>
              ELSE IF NoQuery(arguments)
                THEN fiOutcome' = "usage" /\ fiCall' = <<>>
                ELSE /\ fiOutcome' = "scan_requested"
                     /\ fiCall' = <<PrintInstancesCall(arguments[1])>>
  /\ requests' = requests + 1
  /\ UNCHANGED <<libOnDisk, unloads, bmVars, parseVars, wivarVars>>

\* The process restarts, or the library is unloaded from it: the target no
\* longer lists the module.
Unload ==
  /\ command = "findinstances"
  /\ chiselModule
  /\ unloads < MaxUnloads
  /\ chiselModule' = FALSE
  /\ unloads' = unloads + 1
  /\ UNCHANGED <<libOnDisk, fiArg, fiCall, fiOutcome, requests, dlopens,
                 loads, bmVars, parseVars, wivarVars>>

InitFind ==
  /\ chiselModule \in BOOLEAN
  /\ libOnDisk \in [override : {"unset", "missing", "exists"},
                    default : BOOLEAN]
  /\ fiArg = <<>>
  /\ fiCall = <<>>
  /\ fiOutcome = "none"
  /\ requests = 0 /\ dlopens = 0 /\ loads = 0 /\ unloads = 0
  /\ command = "findinstances"
  /\ expression = <<>>
  /\ pc = "start"
  /\ archOK = TRUE
  /\ rt = [inst |-> {}, meta |-> {}, slide |-> 0]
  /\ prev = NoResult
  /\ ResetLocals
  /\ IdleParse /\ IdleWivar

NextFind == Findinstances \/ Unload

SpecFind == InitFind /\ [][NextFind]_vars

----------------------------------------------------------------------------
(* Properties of findinstances *)

LibraryOnDisk == PathExists(libOnDisk, chiselLibraryPath(libOnDisk))

\* C5: every request asks the target for the module first: the dlopen
\* round trip is made only when the target does not list it, and then (the
\* library being on disk) it is made, also after the module disappeared;
\* while the module stays listed no request loads again, so the library is
\* loaded at most once more than it was unloaded.
C5_LoadOnlyWhenAbsent ==
  [][ /\ dlopens' # dlopens => ~chiselModule
      /\ (requests' # requests /\ chiselModule) =>
           (dlopens' = dlopens /\ chiselModule')
      /\ (requests' # requests /\ ~chiselModule /\ LibraryOnDisk) =>
           dlopens' = dlopens + 1
      /\ loads' <= unloads' + 1 ]_vars

\* C5 witness: loaded on the first request, unloaded, loaded again on the
\* second, and left alone by the third.
C5_Witness ==
  /\ command = "findinstances" /\ chiselModule
  /\ requests = 3 /\ dlopens = 2 /\ loads = 2 /\ unloads = 1

\* Reading a string literal's body back: a backslash takes the next
\* character with it, a bare quote ends the literal, a backslash at the
\* end takes the closing quote.
RECURSIVE ReadLiteral(_)
ReadLiteral(body) ==
  IF body = <<>> THEN [closed |-> TRUE, text |-> <<>>]
  ELSE IF Head(body) = Quote THEN [closed |-> FALSE, text |-> <<>>]
  ELSE IF Head(body) = Backslash
    THEN IF Len(body) = 1 THEN [closed |-> FALSE, text |-> <<>>]
         ELSE LET r == ReadLiteral(Tail(Tail(body))) IN
              [closed |-> r.closed, text |-> <<body[2]>> \o r.text]
  ELSE LET r == ReadLiteral(Tail(body)) IN
       [closed |-> r.closed, text |-> <<Head(body)>> \o r.text]

\* C6: the predicate survives the embedding: read back from the call's
\* string literal it is the text the user gave, and no quote of it ends the
\* literal early.
C6_EscapeRoundTrip ==
  (command = "findinstances" /\ fiOutcome = "scan_requested") =>
    ReadLiteral(fiCall[1].predicate)
      = [closed |-> TRUE, text |-> PredicatePart(fiArg[1])]

\* What does hold: a predicate without backslashes survives.
C6_QuotesSurvive ==
  (command = "findinstances" /\ fiOutcome = "scan_requested"
     /\ ~HasAny(PredicatePart(fiArg[1]), {Backslash}))
    => ReadLiteral(fiCall[1].predicate)
         = [closed |-> TRUE, text |-> PredicatePart(fiArg[1])]

=============================================================================
